---- MODULE Spec2Model ----
(***************************************************************************)
(* Workflow MCP server (custom-mcp-server/server.js): the tools/call       *)
(* dispatcher, the workflow store under WORKFLOWS_DIR, the credential      *)
(* lookups and the recording session behind ./tools/workflow-recorder.js.  *)
(* The recorder module itself is not part of the sources at hand; its      *)
(* operations are modelled from the design document (sections 4.1, 4.2).   *)
(***************************************************************************)
EXTENDS Integers, Sequences, FiniteSets, TLC

\* Number of recording calls (workflowRecordAction while active) in a behaviour.
MaxCalls == 2

-----------------------------------------------------------------------------
(* Values *)

Undefined == "<undefined>"
NoName == "<none>"

\* Workflow names an agent records under and fetches.
Names == {"checkout", "rei"}
\* A name no document is ever stored under.
FetchNames == Names \cup {"nonexistent"}

ToolNames ==
  { "login_to_site", "get_login_credentials", "workflow_fetch",
    "workflow_list", "workflow_record_start", "workflow_record_stop" }
\* Names an agent may send that the server does not declare.
UnknownNames == {"browser_click"}

\* request.params.arguments is optional on the wire.
NoArgs == "<no arguments>"

ErrorKinds ==
  { "AlreadyRecordingError", "EmptyRecordingError", "UnresolvedReferenceError",
    "PersistenceError", "WorkflowNotFoundError", "FailedToFetch", "FailedToList",
    "UnknownOperationError", "CredentialsFileNotFound", "CredentialNotFoundError",
    "CredentialFieldMissingError", "FailedToGetCredentials",
    "FailedToPrepareLogin", "TypeError" }

-----------------------------------------------------------------------------
(* Accessibility-tree snapshots: nodes in tree pre-order, parent = position *)
(* of the parent node (0 for the root).                                     *)

Node(ref, role, name, text, parent) ==
  [ref |-> ref, role |-> role, accessibleName |-> name, text |-> text, parent |-> parent]

\* The cart page.
SnapCart ==
  << Node("e1", "form", "Cart", "Your cart", 0),
     Node("e2", "button", "Checkout", "", 1),
     Node("e3", "button", "Checkout", "Pay now", 1) >>
\* The same page snapshotted again: every ephemeral reference id is regenerated.
SnapCartAgain ==
  << Node("e2", "form", "Cart", "Your cart", 0),
     Node("e3", "button", "Checkout", "", 1),
     Node("e4", "button", "Checkout", "Pay now", 1) >>

Snapshots == {SnapCart, SnapCartAgain}
Refs == {"e2", "e3"}
Urls == {"https://shop.test/cart"}
Elements == {"Checkout button"}

NoTarget == [role |-> Undefined, accessibleName |-> Undefined, textHint |-> Undefined, ordinal |-> 0 - 1]
NoArguments == [url |-> Undefined, text |-> Undefined, submit |-> FALSE, values |-> Undefined]

-----------------------------------------------------------------------------
(* Selector Generalizer (design section 4.1) *)

RefPositions(ref, index) == {p \in 1..Len(index) : index[p].ref = ref}

RECURSIVE textHintAt(_, _)
textHintAt(index, p) ==
  IF p = 0 THEN ""
  ELSE IF index[p].text # "" THEN index[p].text
  ELSE textHintAt(index, index[p].parent)

\* An ordinal counted among the nodes of the same parent only.
ordinalAt_Siblings(index, p) ==
  Cardinality({q \in 1..(p - 1) :
                 /\ index[q].role = index[p].role
                 /\ index[q].accessibleName = index[p].accessibleName
                 /\ index[q].parent = index[p].parent})

ordinalAt(index, p) ==
  Cardinality({q \in 1..(p - 1) :
                 /\ index[q].role = index[p].role
                 /\ index[q].accessibleName = index[p].accessibleName})

\* A generalizer whose textHint falls back on the reference id itself.
generalize_RefAsHint(ref, index) ==
  IF RefPositions(ref, index) = {}
  THEN [threw |-> TRUE, error |-> "UnresolvedReferenceError", target |-> NoTarget]
  ELSE LET p == CHOOSE q \in RefPositions(ref, index) : TRUE
           hint == textHintAt(index, p)
       IN [threw |-> FALSE, error |-> "none",
           target |-> [role |-> index[p].role,
                       accessibleName |-> index[p].accessibleName,
                       textHint |-> IF hint = "" THEN ref ELSE hint,
                       ordinal |-> ordinalAt(index, p)]]

generalize(ref, index) ==
  IF RefPositions(ref, index) = {}
  THEN [threw |-> TRUE, error |-> "UnresolvedReferenceError", target |-> NoTarget]
  ELSE LET p == CHOOSE q \in RefPositions(ref, index) : TRUE
       IN [threw |-> FALSE, error |-> "none",
           target |-> [role |-> index[p].role,
                       accessibleName |-> index[p].accessibleName,
                       textHint |-> textHintAt(index, p),
                       ordinal |-> ordinalAt(index, p)]]

\* Pages for the generalizer on its own: up to MaxNodes nodes in pre-order,
\* each with one of a few role/name pairs, with or without text of its own,
\* and any earlier node (or none) as parent.
MaxNodes == 3
NodeKinds ==
  { <<"button", "Checkout">>, <<"button", "">>, <<"link", "Checkout">> }
NodeTexts == {"", "Pay now"}
PagesOf(n) ==
  { [i \in 1..n |-> Node(Undefined, kinds[i][1], kinds[i][2], texts[i], parents[i])] :
      kinds \in [1..n -> NodeKinds], texts \in [1..n -> NodeTexts],
      parents \in {f \in [1..n -> 0..(n - 1)] : \A i \in 1..n : f[i] < i} }

\* Reference ids as the browser-control tool hands them out, and two ways a
\* snapshot of n nodes may be numbered: from the start of the pool, or from
\* the next id on.
RefPool == <<"e1", "e2", "e3", "e4", "e5", "e6">>
RefsFrom(k, n) == [i \in 1..n |-> RefPool[k + i]]
Snapshot(page, refs) == [i \in 1..Len(page) |-> [page[i] EXCEPT !.ref = refs[i]]]

NoGen ==
  [page |-> <<>>, node |-> 0, refsA |-> <<>>, refsB |-> <<>>, applied |-> FALSE,
   outA |-> [threw |-> FALSE, error |-> "none", target |-> NoTarget],
   outB |-> [threw |-> FALSE, error |-> "none", target |-> NoTarget]]

-----------------------------------------------------------------------------
(* Recorder (design section 4.2; ./tools/workflow-recorder.js) *)

IdleRecorder ==
  [recording |-> FALSE, name |-> NoName, steps |-> <<>>, index |-> <<>>,
   snapshotTaken |-> FALSE]

isRecording(rec) == rec.recording

startRecording(rec, name) ==
  IF rec.recording
  THEN [threw |-> TRUE, error |-> "AlreadyRecordingError", rec |-> rec]
  ELSE [threw |-> FALSE, error |-> "none",
        rec |-> [recording |-> TRUE, name |-> name, steps |-> <<>>, index |-> <<>>,
                 snapshotTaken |-> FALSE]]

Step(n, tool, target, arguments, description) ==
  [step |-> n, tool |-> tool, target |-> target, arguments |-> arguments,
   description |-> description]

\* Steps put in front of the sequence instead of at its end.
appendStep_Prepend(rec, tool, target, arguments, description) ==
  [rec EXCEPT !.steps =
     <<Step(Len(rec.steps) + 1, tool, target, arguments, description)>> \o rec.steps]

appendStep(rec, tool, target, arguments, description) ==
  [rec EXCEPT !.steps =
     Append(rec.steps, Step(Len(rec.steps) + 1, tool, target, arguments, description))]

\* Every record operation is a no-op while idle.
noOp(rec) == [threw |-> FALSE, error |-> "none", rec |-> rec]

recordNavigate(rec, url) ==
  IF ~rec.recording THEN noOp(rec)
  ELSE [threw |-> FALSE, error |-> "none",
        rec |-> appendStep(rec, "navigate", NoTarget, [NoArguments EXCEPT !.url = url],
                           <<"Navigate to", url>>)]

\* A recorder that appends a Step without target when the ref is not resolved.
recordTargeted_AppendsUnresolved(rec, tool, element, ref, arguments, verb) ==
  LET g == generalize(ref, rec.index)
  IN IF ~rec.recording THEN noOp(rec)
     ELSE IF g.threw
     THEN [threw |-> TRUE, error |-> g.error,
           rec |-> appendStep(rec, tool, NoTarget, arguments, <<verb, element>>)]
     ELSE [threw |-> FALSE, error |-> "none",
           rec |-> appendStep(rec, tool, g.target, arguments, <<verb, element>>)]

recordTargeted(rec, tool, element, ref, arguments, verb) ==
  LET g == generalize(ref, rec.index)
  IN IF ~rec.recording THEN noOp(rec)
     ELSE IF g.threw
     THEN [threw |-> TRUE, error |-> g.error, rec |-> rec]
     ELSE [threw |-> FALSE, error |-> "none",
           rec |-> appendStep(rec, tool, g.target, arguments, <<verb, element>>)]

recordClick(rec, element, ref) ==
  recordTargeted(rec, "click", element, ref, NoArguments, "Click")

recordType(rec, element, ref, text, submit) ==
  recordTargeted(rec, "type", element, ref,
                 [NoArguments EXCEPT !.text = text, !.submit = submit], "Type into")

recordSelectOption(rec, element, ref, values) ==
  recordTargeted(rec, "select_option", element, ref,
                 [NoArguments EXCEPT !.values = values], "Select in")

\* A recorder that builds its Snapshot Index from the first snapshot only.
recordSnapshot_KeepsFirstIndex(rec, snapshot) ==
  IF ~rec.recording THEN noOp(rec)
  ELSE IF rec.snapshotTaken THEN noOp(rec)
  ELSE [threw |-> FALSE, error |-> "none",
        rec |-> appendStep([rec EXCEPT !.index = snapshot, !.snapshotTaken = TRUE],
                           "snapshot-checkpoint", NoTarget, NoArguments,
                           <<"Snapshot", "baseline">>)]

recordSnapshot(rec, snapshot) ==
  LET indexed == [rec EXCEPT !.index = snapshot, !.snapshotTaken = TRUE]
  IN IF ~rec.recording THEN noOp(rec)
     ELSE [threw |-> FALSE, error |-> "none",
           rec |-> IF rec.snapshotTaken THEN indexed
                   ELSE appendStep(indexed, "snapshot-checkpoint", NoTarget, NoArguments,
                                   <<"Snapshot", "baseline">>)]

DefaultDescription(name) == <<"Recorded workflow", name>>

generateWorkflow(rec) ==
  [name |-> rec.name, description |-> DefaultDescription(rec.name), steps |-> rec.steps]

\* stop(): NotRecordingError when idle, EmptyRecordingError without steps, else
\* the session is drained into a Workflow and its state discarded.
stop(rec) ==
  IF ~rec.recording
  THEN [threw |-> TRUE, error |-> "NotRecordingError", rec |-> rec,
        workflow |-> generateWorkflow(IdleRecorder)]
  ELSE IF rec.steps = <<>>
  THEN [threw |-> TRUE, error |-> "EmptyRecordingError", rec |-> rec,
        workflow |-> generateWorkflow(IdleRecorder)]
  ELSE [threw |-> FALSE, error |-> "none", rec |-> IdleRecorder,
        workflow |-> generateWorkflow(rec)]

-----------------------------------------------------------------------------
(* Workflow Store: one document per <name>.json under WORKFLOWS_DIR *)

\* Content of <base>.json: no such file, bytes that are not JSON, or a JSON
\* object (whose name or steps a hand-written document may lack).
NoFile ==
  [kind |-> "absent", name |-> Undefined, description |-> <<Undefined>>,
   steps |-> <<>>, hasSteps |-> FALSE]
Garbage == [NoFile EXCEPT !.kind = "garbage"]
Doc(name, description, steps) ==
  [kind |-> "json", name |-> name, description |-> description, steps |-> steps,
   hasSteps |-> TRUE]

FileAt(files, base) == IF base \in DOMAIN files THEN files[base] ELSE NoFile

\* Directory order of the *.json files.
FileOrder == <<"checkout", "rei">>
DirListing(files) == SelectSeq(FileOrder, LAMBDA b : files[b].kind # "absent")

\* JSON.stringify(workflow) as written by the store.
Stringify(workflow) == Doc(workflow.name, workflow.description, workflow.steps)

\* save(workflow): PersistenceError on a failed write, else the document
\* replaces whatever <name>.json held.
\* A save that keeps the steps of the document already stored under the name.
save_Merge(files, workflow, writeOk) ==
  IF ~writeOk
  THEN [threw |-> TRUE, error |-> "PersistenceError", files |-> files, path |-> Undefined]
  ELSE [threw |-> FALSE, error |-> "none",
        files |-> [files EXCEPT ![workflow.name] =
                     Doc(workflow.name, workflow.description, @.steps \o workflow.steps)],
        path |-> workflow.name]

save(files, workflow, writeOk) ==
  IF ~writeOk
  THEN [threw |-> TRUE, error |-> "PersistenceError", files |-> files, path |-> Undefined]
  ELSE [threw |-> FALSE, error |-> "none",
        files |-> [files EXCEPT ![workflow.name] = Stringify(workflow)],
        path |-> workflow.name]

\* recorder.saveWorkflow(dir): stops the session and hands the Workflow to the store.
saveWorkflow(rec, files, writeOk) ==
  LET stopped == stop(rec)
      saved == save(files, stopped.workflow, writeOk)
  IN IF stopped.threw
     THEN [threw |-> TRUE, error |-> stopped.error, rec |-> stopped.rec,
           files |-> files, path |-> Undefined]
     ELSE [threw |-> saved.threw, error |-> saved.error, rec |-> stopped.rec,
           files |-> saved.files, path |-> saved.path]

-----------------------------------------------------------------------------
(* What a handler hands back to its caller: a returned result or a thrown Error *)

NoWorkflow == [name |-> Undefined, description |-> <<Undefined>>, steps |-> <<>>]

Return(op, text) ==
  [op |-> op, subject |-> "", kind |-> "return", error |-> "none", wrapped |-> "",
   text |-> text, listed |-> {}, entries |-> <<>>, doc |-> NoFile,
   workflow |-> NoWorkflow, path |-> Undefined, site |-> ""]

\* throw new Error(message): no content, only the message (error names the
\* message, subject the name it quotes, listed the names it enumerates, wrapped
\* the prefix put before it).
Throw(op, error) ==
  [Return(op, "") EXCEPT !.kind = "throw", !.error = error]
ThrowAbout(op, error, subject) ==
  [Throw(op, error) EXCEPT !.subject = subject]

NoCall == [Return("", "") EXCEPT !.kind = "none"]

-----------------------------------------------------------------------------
(* Credentials Management (server.js 30-213) *)

NoCredential == [username |-> "", email |-> "", password |-> "", loginUrl |-> ""]
\* credentials.json when it exists and parses.
Credentials ==
  [s \in {"rei", "amazon"} |->
     IF s = "rei"
     THEN [NoCredential EXCEPT !.email = "me@rei.test", !.password = "pw1",
                               !.loginUrl = "https://rei.test/login"]
     ELSE [NoCredential EXCEPT !.username = "amz", !.password = "pw2"]]
\* Names every object answers to through Object.prototype: credentials[site]
\* is then an inherited member, truthy and without any credential field.
PrototypeKeys == {"constructor"}
Sites == DOMAIN Credentials \cup {"ebay"} \cup PrototypeKeys
\* credentials[site] is falsy (lines 35, 88).
NoEntry(site) == site \notin DOMAIN Credentials \cup PrototypeKeys
\* credentials[site] when it is truthy.
Entry(site) == IF site \in DOMAIN Credentials THEN Credentials[site] ELSE NoCredential
\* State of credentials.json at the time of a call.
CredentialFiles == {"missing", "garbage", "ok"}

getLoginCredentials(site, credFile) ==
  LET op == "get_login_credentials"
  IN IF credFile = "missing" THEN Throw(op, "CredentialsFileNotFound")
     ELSE IF credFile = "garbage" THEN Throw(op, "FailedToGetCredentials")
     ELSE IF NoEntry(site)
     THEN [ThrowAbout(op, "CredentialNotFoundError", site) EXCEPT
             !.listed = DOMAIN Credentials, !.wrapped = "Failed to get credentials"]
     ELSE [Return(op, "LoginCredentials") EXCEPT !.site = site]

loginToSite(site, credFile) ==
  LET op == "login_to_site"
      wrap(e) == [e EXCEPT !.wrapped = "Failed to prepare login"]
  IN IF credFile # "ok" THEN wrap(Throw(op, "FailedToPrepareLogin"))
     ELSE IF NoEntry(site)
     THEN wrap([ThrowAbout(op, "CredentialNotFoundError", site) EXCEPT
                  !.listed = DOMAIN Credentials])
     ELSE IF Entry(site).username = "" /\ Entry(site).email = ""
     THEN wrap(ThrowAbout(op, "CredentialFieldMissingError", site))
     ELSE IF Entry(site).loginUrl = ""
     THEN wrap(ThrowAbout(op, "CredentialFieldMissingError", site))
     ELSE [Return(op, "LoginInstructions") EXCEPT !.site = site]

-----------------------------------------------------------------------------
(* Workflow Tools (server.js 219-385) *)

\* Line 259-264: the Error that enumerates the *.json files of the directory.
notFoundWithList(files, workflowName, dirOk) ==
  IF dirOk
  THEN [ThrowAbout("workflow_fetch", "WorkflowNotFoundError", workflowName) EXCEPT
          !.listed = {b \in DOMAIN files : files[b].kind # "absent"}]
  ELSE Throw("workflow_fetch", "FailedToList")

\* Line 258-267: that Error is thrown inside the try whose catch replaces
\* whatever was thrown there by the bare "Workflow not found" Error.
notFound(files, workflowName, dirOk) ==
  LET thrownInTry == notFoundWithList(files, workflowName, dirOk)
  IN IF thrownInTry.kind = "throw"
     THEN ThrowAbout("workflow_fetch", "WorkflowNotFoundError", workflowName)
     ELSE thrownInTry

\* The path built without its ".json": no file is ever found there.
workflowFetch_NoExtension(files, workflowName, readOk, dirOk) ==
  IF ~readOk THEN Throw("workflow_fetch", "FailedToFetch")
  ELSE notFound(files, workflowName, dirOk)

\* readOk: readFile is not refused (an error other than ENOENT); dirOk: readdir succeeds.
workflowFetch(files, workflowName, readOk, dirOk) ==
  LET f == FileAt(files, workflowName)
  IN IF ~readOk THEN Throw("workflow_fetch", "FailedToFetch")
     ELSE IF f.kind = "absent" THEN notFound(files, workflowName, dirOk)
     ELSE IF f.kind = "garbage" \/ ~f.hasSteps
     THEN Throw("workflow_fetch", "FailedToFetch")
     ELSE [Return("workflow_fetch", "Workflow") EXCEPT !.doc = f]

\* Lines 284-301: one entry per *.json file, degraded when it cannot be loaded.
listEntry(files, base) ==
  LET f == files[base]
  IN IF f.kind = "json" /\ f.hasSteps
     THEN [name |-> f.name, description |-> f.description, steps |-> Len(f.steps),
           file |-> base]
     ELSE [name |-> base, description |-> <<"Error loading workflow">>, steps |-> 0,
           file |-> base]

workflowList(files, dirOk) ==
  LET listing == DirListing(files)
      workflows == [i \in 1..Len(listing) |-> listEntry(files, listing[i])]
  IN IF ~dirOk THEN Throw("workflow_list", "FailedToList")
     \* Line 315: w.name.replace(...) on a document without a name.
     ELSE IF \E i \in 1..Len(workflows) : workflows[i].name = Undefined
     THEN Throw("workflow_list", "FailedToList")
     ELSE [Return("workflow_list", "AvailableWorkflows") EXCEPT !.entries = workflows]

\* A start that drops the session in progress and begins anew.
workflowRecordStart_Restart(rec, name, description) ==
  [recorder |-> startRecording(IdleRecorder, name).rec,
   out |-> Return("workflow_record_start", "RecordingStarted")]

\* A start that refuses a second session but empties the steps of the first.
workflowRecordStart_ClearSteps(rec, name, description) ==
  LET started == startRecording(rec, name)
  IN IF started.threw
     THEN [recorder |-> [started.rec EXCEPT !.steps = <<>>],
           out |-> Throw("workflow_record_start", started.error)]
     ELSE [recorder |-> started.rec,
           out |-> Return("workflow_record_start", "RecordingStarted")]

workflowRecordStart(rec, name, description) ==
  LET started == startRecording(rec, name)
  IN IF started.threw
     THEN [recorder |-> started.rec, out |-> Throw("workflow_record_start", started.error)]
     ELSE [recorder |-> started.rec,
           out |-> Return("workflow_record_start", "RecordingStarted")]

\* Lines 351-367: save through the recorder, then read the workflow back from it.
stopAndReport(rec, files, writeOk) ==
  LET op == "workflow_record_stop"
      saved == saveWorkflow(rec, files, writeOk)
  IN IF saved.threw
     THEN [recorder |-> saved.rec, files |-> saved.files, out |-> Throw(op, saved.error)]
     ELSE [recorder |-> saved.rec, files |-> saved.files,
           out |-> [Return(op, "RecordingStopped") EXCEPT
                      !.workflow = generateWorkflow(saved.rec), !.path = saved.path]]

notRecording(rec, files) ==
  [recorder |-> rec, files |-> files,
   out |-> Return("workflow_record_stop", "NotRecording")]

\* A stop without the isRecording() test of line 342.
workflowRecordStop_NoGuard(rec, files, writeOk) == stopAndReport(rec, files, writeOk)

\* A stop that writes recorder.generateWorkflow() to the store itself.
workflowRecordStop_WriteDirect(rec, files, writeOk) ==
  LET op == "workflow_record_stop"
      saved == save(files, generateWorkflow(rec), writeOk)
  IN IF ~isRecording(rec) THEN notRecording(rec, files)
     ELSE IF saved.threw
     THEN [recorder |-> IdleRecorder, files |-> files, out |-> Throw(op, saved.error)]
     ELSE [recorder |-> IdleRecorder, files |-> saved.files,
           out |-> [Return(op, "RecordingStopped") EXCEPT
                      !.workflow = generateWorkflow(IdleRecorder), !.path = saved.path]]

\* A stop that marks the recorder idle but leaves the session's name and steps.
workflowRecordStop_KeepSession(rec, files, writeOk) ==
  IF ~isRecording(rec) THEN notRecording(rec, files)
  ELSE [stopAndReport(rec, files, writeOk) EXCEPT
          !.recorder = [rec EXCEPT !.recording = FALSE]]

\* A stop that saves the session and leaves it recording.
workflowRecordStop_StillRecording(rec, files, writeOk) ==
  IF ~isRecording(rec) THEN notRecording(rec, files)
  ELSE [stopAndReport(rec, files, writeOk) EXCEPT !.recorder = rec]

\* A stop whose failed write leaves a truncated document behind.
workflowRecordStop_PartialWrite(rec, files, writeOk) ==
  LET r == stopAndReport(rec, files, writeOk)
  IN IF ~isRecording(rec) THEN notRecording(rec, files)
     ELSE IF r.out.error = "PersistenceError"
     THEN [r EXCEPT !.files = [files EXCEPT ![rec.name] = Garbage]]
     ELSE r

workflowRecordStop(rec, files, writeOk) ==
  IF ~isRecording(rec) THEN notRecording(rec, files)
  ELSE stopAndReport(rec, files, writeOk)

RecordActions == {"navigate", "click", "type", "select_option", "snapshot", "hover"}
\* The browser actions the recorder has an operation for.
BrowserActions == {"navigate", "click", "type", "select_option", "snapshot"}

\* A dispatch whose click branch passes ref and element in the wrong order.
recordDispatch_ClickSwapped(rec, action, params) ==
  LET op == "workflowRecordAction"
      r == CASE action = "navigate" -> recordNavigate(rec, params.url)
             [] action = "click" -> recordClick(rec, params.ref, params.element)
             [] action = "type" ->
                  recordType(rec, params.element, params.ref, params.text, params.submit)
             [] action = "select_option" ->
                  recordSelectOption(rec, params.element, params.ref, params.values)
             [] action = "snapshot" -> recordSnapshot(rec, params.snapshot)
             [] OTHER -> [threw |-> FALSE, error |-> "none", rec |-> rec]
  IN IF r.threw THEN [recorder |-> r.rec, out |-> Throw(op, r.error)]
     ELSE [recorder |-> r.rec, out |-> Return(op, "")]

\* A dispatch without its snapshot branch.
recordDispatch_SnapshotDropped(rec, action, params) ==
  LET op == "workflowRecordAction"
      r == CASE action = "navigate" -> recordNavigate(rec, params.url)
             [] action = "click" -> recordClick(rec, params.element, params.ref)
             [] action = "type" ->
                  recordType(rec, params.element, params.ref, params.text, params.submit)
             [] action = "select_option" ->
                  recordSelectOption(rec, params.element, params.ref, params.values)
             [] OTHER -> [threw |-> FALSE, error |-> "none", rec |-> rec]
  IN IF r.threw THEN [recorder |-> r.rec, out |-> Throw(op, r.error)]
     ELSE [recorder |-> r.rec, out |-> Return(op, "")]

\* Lines 374-384: the recorder operation an action is handed to, if any.
recordDispatch(rec, action, params) ==
  LET op == "workflowRecordAction"
      r == CASE action = "navigate" -> recordNavigate(rec, params.url)
             [] action = "click" -> recordClick(rec, params.element, params.ref)
             [] action = "type" ->
                  recordType(rec, params.element, params.ref, params.text, params.submit)
             [] action = "select_option" ->
                  recordSelectOption(rec, params.element, params.ref, params.values)
             [] action = "snapshot" -> recordSnapshot(rec, params.snapshot)
             [] OTHER -> [threw |-> FALSE, error |-> "none", rec |-> rec]
  IN IF r.threw THEN [recorder |-> r.rec, out |-> Throw(op, r.error)]
     ELSE [recorder |-> r.rec, out |-> Return(op, "")]

\* Without the isRecording() test of line 371.
workflowRecordAction_NoGuard(rec, action, params) == recordDispatch(rec, action, params)

\* With the select_option branch spelled so that it never matches.
workflowRecordAction_SelectMismatch(rec, action, params) ==
  IF ~isRecording(rec) \/ action = "select_option"
  THEN [recorder |-> rec, out |-> Return("workflowRecordAction", "")]
  ELSE recordDispatch(rec, action, params)

\* An action handed over while idle treated as an error.
workflowRecordAction_ThrowIdle(rec, action, params) ==
  IF ~isRecording(rec)
  THEN [recorder |-> rec, out |-> Throw("workflowRecordAction", "NotRecordingError")]
  ELSE recordDispatch(rec, action, params)

workflowRecordAction(rec, action, params) ==
  IF ~isRecording(rec) THEN [recorder |-> rec, out |-> Return("workflowRecordAction", "")]
  ELSE recordDispatch(rec, action, params)

-----------------------------------------------------------------------------
(* Handle: tools/call (server.js 499-527) *)

NoArguments_ == [present |-> FALSE, site |-> Undefined, workflowName |-> Undefined,
                 name |-> Undefined, description |-> Undefined]
Args == [NoArguments_ EXCEPT !.present = TRUE]

\* What the environment decides during one call: the state of credentials.json
\* and whether reads, directory listings and writes under WORKFLOWS_DIR succeed.
Environments ==
  [credFile : CredentialFiles, readOk : BOOLEAN, dirOk : BOOLEAN, writeOk : BOOLEAN]

\* Lines 502-524: the names the handler's if-chain tests for.
HandledNames ==
  { "login_to_site", "get_login_credentials", "workflow_fetch",
    "workflow_list", "workflow_record_start", "workflow_record_stop" }

\* A tools/list that also announces the recording of single actions.
listTools_WithRecordAction ==
  [Return("tools/list", "Tools") EXCEPT !.listed = ToolNames \cup {"workflow_record_action"}]

\* Lines 410-493: tools/list returns the static catalog.
listTools == [Return("tools/list", "Tools") EXCEPT !.listed = ToolNames]

\* Lines 500-524: const { name, arguments: args } = request.params and the
\* chain of name tests; args.<field> of a request without arguments is a TypeError.
routeTool(rec, files, name, args, env) ==
  LET same(out) == [recorder |-> rec, files |-> files, out |-> out]
      typeError == same(Throw(name, "TypeError"))
  IN CASE name = "login_to_site" ->
            IF ~args.present THEN typeError
            ELSE same(loginToSite(args.site, env.credFile))
       [] name = "get_login_credentials" ->
            IF ~args.present THEN typeError
            ELSE same(getLoginCredentials(args.site, env.credFile))
       [] name = "workflow_fetch" ->
            IF ~args.present THEN typeError
            ELSE same(workflowFetch(files, args.workflowName, env.readOk, env.dirOk))
       [] name = "workflow_list" -> same(workflowList(files, env.dirOk))
       [] name = "workflow_record_start" ->
            IF ~args.present THEN typeError
            ELSE LET r == workflowRecordStart(rec, args.name, args.description)
                 IN [recorder |-> r.recorder, files |-> files, out |-> r.out]
       [] name = "workflow_record_stop" -> workflowRecordStop(rec, files, env.writeOk)

\* Line 526.
unknownTool(rec, files, name) ==
  [recorder |-> rec, files |-> files, out |-> ThrowAbout(name, "UnknownOperationError", name)]

\* A handler that catches what its operations throw and returns it as text.
CallToolHandler_Catching(rec, files, name, args, env) ==
  LET r == IF name \in HandledNames THEN routeTool(rec, files, name, args, env)
           ELSE unknownTool(rec, files, name)
  IN IF r.out.kind = "throw" THEN [r EXCEPT !.out = Return(name, "Error")] ELSE r

\* A handler whose last name test is missing: any other name stops the recording.
CallToolHandler_Fallthrough(rec, files, name, args, env) ==
  IF name \in HandledNames THEN routeTool(rec, files, name, args, env)
  ELSE [routeTool(rec, files, "workflow_record_stop", args, env) EXCEPT !.out.op = name]

CallToolHandler(rec, files, name, args, env) ==
  IF name \in HandledNames THEN routeTool(rec, files, name, args, env)
  ELSE unknownTool(rec, files, name)

-----------------------------------------------------------------------------
(* State *)

VARIABLES
  recorder,   \* the recorder singleton imported at server.js:18
  files,      \* WORKFLOWS_DIR: file base name -> content of <base>.json
  last,       \* outcome of the most recent call, as its caller sees it
  hist,       \* history: what was called in the current session, what was saved
  inflight,   \* the workflow_record_stop suspended at its await (line 351), if any
  gen         \* a generalize() computation on its own: inputs and results

vars == <<recorder, files, last, hist, inflight, gen>>

\* No call is suspended.
NoInflight == [active |-> FALSE, workflow |-> NoWorkflow]

NavStep == Step(1, "browser_navigate", NoTarget,
                [NoArguments EXCEPT !.url = "https://www.rei.com"], <<"Navigate to REI">>)

\* Directory contents the server may be started on: recorded documents and
\* documents written by hand (README, "Adding New Workflows").
InitStores ==
  { [b \in Names |-> IF b = "checkout"
                     THEN [Doc("checkout", <<"No steps">>, <<>>) EXCEPT !.hasSteps = FALSE]
                     ELSE NoFile],
    [b \in Names |-> IF b = "checkout"
                     THEN Doc("checkout", <<"Buy the cart">>, <<NavStep>>)
                     ELSE Garbage],
    [b \in Names |-> IF b = "rei"
                     THEN Doc("rei-hiking-shoes-purchase", <<"Buy shoes">>,
                              <<NavStep, [NavStep EXCEPT !.step = 2]>>)
                     ELSE Doc(Undefined, <<"No name">>, <<NavStep>>)] }

NoHistory ==
  [nrec |-> 0, calls |-> 0, resolved |-> 0, snaps |-> 0, acted |-> FALSE,
   description |-> Undefined,
   saved |-> [b \in Names |-> NoWorkflow]]

Init ==
  /\ recorder = IdleRecorder
  /\ files \in InitStores
  /\ last = NoCall
  /\ hist = NoHistory
  /\ inflight = NoInflight
  /\ gen = NoGen

-----------------------------------------------------------------------------
(* tools/call requests *)

\* A server that has exited on the first Error a handler threw.
CallTool_ExitOnError(name, args, env) ==
  LET res == CallToolHandler(recorder, files, name, args, env)
  IN /\ last.kind # "throw"
     /\ recorder' = res.recorder
     /\ files' = res.files
     /\ last' = res.out
     /\ inflight' = inflight
     /\ gen' = gen

\* The request handler runs on (name, args) and its outcome goes to the caller.
CallTool(name, args, env) ==
  LET res == CallToolHandler(recorder, files, name, args, env)
  IN /\ recorder' = res.recorder
     /\ files' = res.files
     /\ last' = res.out
     /\ inflight' = inflight
     /\ gen' = gen

SiteArgs == {[Args EXCEPT !.site = s] : s \in Sites} \cup {NoArguments_}
FetchArgs == {[Args EXCEPT !.workflowName = n] : n \in FetchNames} \cup {NoArguments_}
\* workflow_record_start with its optional description ("checkout") and
\* without it ("rei").
StartDescription ==
  [n \in Names |-> IF n = "checkout" THEN "Check out the cart" ELSE Undefined]
StartArgs ==
  {[Args EXCEPT !.name = n, !.description = StartDescription[n]] : n \in Names}
    \cup {NoArguments_}

\* The environment of a call that touches neither credentials.json nor WORKFLOWS_DIR.
Quiet == [credFile |-> "ok", readOk |-> TRUE, dirOk |-> TRUE, writeOk |-> TRUE]

LoginToSite ==
  \E args \in SiteArgs, cf \in CredentialFiles :
     /\ CallTool("login_to_site", args, [Quiet EXCEPT !.credFile = cf])
     /\ UNCHANGED hist
GetLoginCredentials ==
  \E args \in SiteArgs, cf \in CredentialFiles :
     /\ CallTool("get_login_credentials", args, [Quiet EXCEPT !.credFile = cf])
     /\ UNCHANGED hist
WorkflowFetch ==
  \E args \in FetchArgs, r \in BOOLEAN, d \in BOOLEAN :
     /\ CallTool("workflow_fetch", args, [Quiet EXCEPT !.readOk = r, !.dirOk = d])
     /\ UNCHANGED hist
WorkflowList ==
  \E d \in BOOLEAN :
     /\ CallTool("workflow_list", Args, [Quiet EXCEPT !.dirOk = d])
     /\ UNCHANGED hist
\* History: a session that starts has seen no recording call yet.
WorkflowRecordStart ==
  \E args \in StartArgs :
     /\ CallTool("workflow_record_start", args, Quiet)
     /\ hist' = IF last'.kind = "return"
                THEN [hist EXCEPT !.calls = 0, !.resolved = 0, !.snaps = 0,
                                  !.acted = FALSE, !.description = args.description]
                ELSE hist
\* History: the Workflow of the session a stop has persisted; the description
\* given at start is history of the session and goes with it.
WorkflowRecordStop ==
  \E args \in {Args, NoArguments_}, w \in BOOLEAN :
     /\ CallTool("workflow_record_stop", args, [Quiet EXCEPT !.writeOk = w])
     /\ hist' = IF last'.text = "RecordingStopped"
                THEN [hist EXCEPT !.saved[recorder.name] = generateWorkflow(recorder),
                                  !.description = Undefined]
                ELSE IF recorder'.recording THEN hist
                ELSE [hist EXCEPT !.description = Undefined]
UnknownTool ==
  \E name \in UnknownNames, args \in {Args, NoArguments_} :
     /\ CallTool(name, args, Quiet)
     /\ UNCHANGED hist

\* tools/list
ListTools ==
  /\ last' = listTools
  /\ UNCHANGED <<recorder, files, hist, inflight, gen>>

-----------------------------------------------------------------------------
(* Browser actions handed to workflowRecordAction *)

NoParams ==
  [url |-> Undefined, element |-> Undefined, ref |-> Undefined, text |-> Undefined,
   submit |-> FALSE, values |-> Undefined, snapshot |-> <<>>]

\* The params a browser action of each kind comes with.
ParamsOf(action) ==
  CASE action = "navigate" -> {[NoParams EXCEPT !.url = u] : u \in Urls}
    [] action = "click" ->
         {[NoParams EXCEPT !.element = e, !.ref = r] : e \in Elements, r \in Refs}
    [] action = "type" ->
         {[NoParams EXCEPT !.element = "Size box", !.ref = "e2", !.text = "10"]}
    [] action = "select_option" ->
         {[NoParams EXCEPT !.element = "Size list", !.ref = "e1", !.values = "10"]}
    [] action = "snapshot" -> {[NoParams EXCEPT !.snapshot = sn] : sn \in Snapshots}
    [] OTHER -> {NoParams}

\* What a call adds to the number of recording calls of the session: the first
\* snapshot 1, a later snapshot 0, every other record call 1.
CallCount(action) ==
  IF action = "snapshot" THEN (IF hist.snaps = 0 THEN 1 ELSE 0)
  ELSE IF action \in {"navigate", "click", "type", "select_option"} THEN 1
  ELSE 0

\* The same, but a click, type or select_option whose ref the current snapshot
\* does not hold counts 0.
ResolvedCount(action, params) ==
  IF /\ action \in {"click", "type", "select_option"}
     /\ \A p \in 1..Len(recorder.index) : recorder.index[p].ref # params.ref
  THEN 0
  ELSE CallCount(action)

RecordAction ==
  \E action \in RecordActions : \E params \in ParamsOf(action) :
    LET res == workflowRecordAction(recorder, action, params)
    IN /\ hist.nrec < MaxCalls
       /\ recorder' = res.recorder
       /\ last' = res.out
       /\ hist' = IF recorder.recording
                  THEN [hist EXCEPT !.nrec = @ + CallCount(action),
                                    !.calls = @ + CallCount(action),
                                    !.resolved = @ + ResolvedCount(action, params),
                                    !.snaps = IF action = "snapshot"
                                              THEN (IF @ = 0 THEN 1 ELSE 2) ELSE @,
                                    !.acted = @ \/ action \in BrowserActions]
                  ELSE hist
       /\ UNCHANGED <<files, inflight, gen>>

Next ==
  \/ LoginToSite
  \/ GetLoginCredentials
  \/ WorkflowFetch
  \/ WorkflowList
  \/ WorkflowRecordStart
  \/ WorkflowRecordStop
  \/ UnknownTool
  \/ ListTools
  \/ RecordAction

Spec == Init /\ [][Next]_vars

-----------------------------------------------------------------------------
(* Requests in flight together.  The handler is an async function: a call
   suspended at an await leaves the event loop free to start the handler of
   the next request.  workflowRecordStop is the one call that changes state
   on both sides of its await (lines 351-352). *)

\* Lines 341-351: workflow_record_stop of a session with steps, up to the await
\* of saveWorkflow: the session is drained and its document is being written.
StopBegin ==
  /\ ~inflight.active
  /\ isRecording(recorder)
  /\ ~stop(recorder).threw
  /\ recorder' = stop(recorder).rec
  /\ inflight' = [active |-> TRUE, workflow |-> stop(recorder).workflow]
  /\ UNCHANGED <<files, last, hist, gen>>

\* Lines 351-367: the write settles, and the handler reads the workflow back
\* from the recorder as it is by then.
StopFinish ==
  \E w \in BOOLEAN :
    LET op == "workflow_record_stop"
        saved == save(files, inflight.workflow, w)
    IN /\ inflight.active
       /\ files' = saved.files
       /\ last' = IF saved.threw THEN Throw(op, saved.error)
                  ELSE [Return(op, "RecordingStopped") EXCEPT
                          !.workflow = generateWorkflow(recorder), !.path = saved.path]
       /\ hist' = IF saved.threw THEN hist
                  ELSE [hist EXCEPT !.saved[inflight.workflow.name] = inflight.workflow,
                                    !.description = Undefined]
       /\ inflight' = NoInflight
       /\ UNCHANGED <<recorder, gen>>

NextInterleaved ==
  \/ Next
  \/ StopBegin
  \/ StopFinish

SpecInterleaved == Init /\ [][NextInterleaved]_vars

-----------------------------------------------------------------------------
(* The server as it is wired.  The handler of tools/call (lines 499-527)
   routes six names and nothing else; no statement of server.js calls
   workflowRecordAction.  The agent performs its browser actions through the
   browser-control server, and this server is not told of them. *)

\* The agent navigates, clicks, types, selects or snapshots in the browser.
BrowserAction ==
  \E action \in BrowserActions :
    /\ hist' = [hist EXCEPT !.acted = @ \/ recorder.recording]
    /\ UNCHANGED <<recorder, files, last, inflight, gen>>

NextWired ==
  \/ LoginToSite
  \/ GetLoginCredentials
  \/ WorkflowFetch
  \/ WorkflowList
  \/ WorkflowRecordStart
  \/ WorkflowRecordStop
  \/ UnknownTool
  \/ ListTools
  \/ BrowserAction

SpecWired == Init /\ [][NextWired]_vars

-----------------------------------------------------------------------------
(* The Selector Generalizer on its own: one page, snapshotted twice with
   different reference ids, and generalize applied to the same node in each. *)

InitGeneralize ==
  /\ recorder = IdleRecorder
  /\ files = [b \in Names |-> NoFile]
  /\ last = NoCall
  /\ hist = NoHistory
  /\ inflight = NoInflight
  /\ \E n \in 1..MaxNodes : \E page \in PagesOf(n) : \E node \in 1..n : \E k \in 1..2 :
       gen = [NoGen EXCEPT !.page = page, !.node = node,
                           !.refsA = RefsFrom(0, n), !.refsB = RefsFrom(k, n)]

Generalize ==
  /\ ~gen.applied
  /\ gen' = [gen EXCEPT
               !.applied = TRUE,
               !.outA = generalize(gen.refsA[gen.node], Snapshot(gen.page, gen.refsA)),
               !.outB = generalize(gen.refsB[gen.node], Snapshot(gen.page, gen.refsB))]
  /\ UNCHANGED <<recorder, files, last, hist, inflight>>

NextGeneralize == Generalize

SpecGeneralize == InitGeneralize /\ [][NextGeneralize]_vars

-----------------------------------------------------------------------------
(* Recording session: claims C1-C5 *)

\* A successful workflow_record_stop has just persisted a session.
Stopped == last.op = "workflow_record_stop" /\ last.text = "RecordingStopped"

\* C1: in every reachable state at most one recording session exists: the
\* recorder is idle and then holds no name and no steps, or it holds exactly
\* one session with one name and one step sequence.
C1_AtMostOneSession ==
  /\ recorder.recording \in BOOLEAN
  /\ ~recorder.recording => recorder.name = NoName /\ recorder.steps = <<>>
  /\ recorder.recording => recorder.name \in Names

\* A second session is recording steps after a first one was stopped and saved.
C1_Witness ==
  /\ recorder.recording
  /\ recorder.steps # <<>>
  /\ \E b \in Names : hist.saved[b] # NoWorkflow

\* C2: workflow_record_start while a session is active fails with
\* AlreadyRecordingError and leaves the session (name, steps, snapshot index)
\* exactly as it was.
C2_StartWhileActive ==
  [][(/\ recorder.recording
      /\ last'.op = "workflow_record_start"
      /\ last'.error # "TypeError")
     => (/\ last'.kind = "throw"
         /\ last'.error = "AlreadyRecordingError"
         /\ recorder' = recorder)]_vars

\* A start was rejected while the session held recorded steps.
C2_Witness ==
  /\ last.op = "workflow_record_start"
  /\ last.error = "AlreadyRecordingError"
  /\ recorder.recording
  /\ recorder.steps # <<>>

\* C3: workflow_record_stop on an active session without steps fails with
\* EmptyRecordingError and writes nothing; the document a successful stop
\* persists has at least one step.
C3_EmptyRecordingRejected ==
  [][last'.op = "workflow_record_stop" =>
       /\ (recorder.recording /\ recorder.steps = <<>>) =>
            /\ last'.kind = "throw"
            /\ last'.error = "EmptyRecordingError"
            /\ files' = files
       /\ last'.text = "RecordingStopped" =>
            /\ files'[recorder.name].kind = "json"
            /\ files'[recorder.name].steps # <<>>]_vars

\* A stop right after a start was rejected; the session is still there.
C3_Witness ==
  /\ last.op = "workflow_record_stop"
  /\ last.error = "EmptyRecordingError"
  /\ recorder.recording
  /\ recorder.steps = <<>>

\* C4 as claimed: workflow_record_stop while idle fails with NotRecordingError,
\* the recorder stays idle and nothing is written.
C4_StopWhileIdleFails ==
  [][(~recorder.recording /\ last'.op = "workflow_record_stop") =>
       /\ last'.kind = "throw"
       /\ last'.error = "NotRecordingError"
       /\ recorder' = recorder
       /\ files' = files]_vars

\* C4 (amended): workflow_record_stop while idle returns an ordinary result
\* whose text says that no recording is in progress; the recorder stays idle
\* and nothing is written.
C4_StopWhileIdleReturns ==
  [][(~recorder.recording /\ last'.op = "workflow_record_stop") =>
       /\ last'.kind = "return"
       /\ last'.text = "NotRecording"
       /\ last'.error = "none"
       /\ recorder' = recorder
       /\ files' = files]_vars

\* A stop was answered "Not Recording" after an earlier session had been saved.
C4_Witness ==
  /\ last.op = "workflow_record_stop"
  /\ last.text = "NotRecording"
  /\ ~recorder.recording
  /\ \E b \in Names : hist.saved[b] # NoWorkflow

\* Steps are numbered 1..n without gap or duplicate.
Contiguous(steps) == \A i \in 1..Len(steps) : steps[i].step = i

\* C5 as claimed: the persisted Workflow has as many steps as recording calls
\* were made in the session (first snapshot 1, later snapshots 0, every other
\* record call 1), numbered 1..n.
C5_StepsCountEveryCall ==
  Stopped =>
    /\ Len(files[last.path].steps) = hist.calls
    /\ Contiguous(files[last.path].steps)

\* C5 (amended): the same, where a click, type or select_option call that
\* fails with UnresolvedReferenceError contributes no step; it holds of the
\* session while it records and of the Workflow a stop persists.
C5_StepsCountResolvedCalls ==
  /\ recorder.recording =>
       /\ Len(recorder.steps) = hist.resolved
       /\ Contiguous(recorder.steps)
  /\ Stopped =>
       /\ files[last.path].kind = "json"
       /\ Len(files[last.path].steps) = hist.resolved
       /\ Contiguous(files[last.path].steps)

\* A session with a first snapshot, a later snapshot and one more recorded
\* call was stopped and persisted.
C5_Witness ==
  /\ Stopped
  /\ hist.snaps = 2
  /\ hist.calls = 2
  /\ Len(files[last.path].steps) = 2

-----------------------------------------------------------------------------
(* Workflow Store: claims C6-C8 *)

FetchOf(n) ==
  CallToolHandler(recorder, files, "workflow_fetch", [Args EXCEPT !.workflowName = n],
                  Quiet).out

ListedNames ==
  LET l == workflowList(files, TRUE)
  IN {l.entries[i].name : i \in 1..Len(l.entries)}

\* C7: the WorkflowNotFoundError of a fetch carries every workflow name that
\* list() currently returns.
C7_NotFoundCarriesNames ==
  (last.op = "workflow_fetch" /\ last.error = "WorkflowNotFoundError")
    => ListedNames \subseteq last.listed

\* workflow_list on a readable directory.
ListReadable == CallTool("workflow_list", Args, Quiet) /\ UNCHANGED hist

\* C8: list() on a readable directory returns one entry per stored document,
\* degraded ("Error loading workflow", 0 steps) for a document that does not
\* parse and with the actual step count for every other; it fails only when
\* the directory is unreadable.
C8_ListToleratesBadDocuments ==
  [][ListReadable =>
       /\ last'.kind = "return"
       /\ Len(last'.entries) = Len(DirListing(files))
       /\ \A i \in 1..Len(last'.entries) :
            LET f == files[DirListing(files)[i]]
                e == last'.entries[i]
            IN /\ e.file = DirListing(files)[i]
               /\ f.kind = "garbage" =>
                    e.description = <<"Error loading workflow">> /\ e.steps = 0
               /\ (f.kind = "json" /\ f.hasSteps) => e.steps = Len(f.steps)]_vars

-----------------------------------------------------------------------------
(* Tool Dispatcher: claims C9-C10 *)

\* The calls a client can make and what the environment can do during each.
Requests ==
  ({"login_to_site", "get_login_credentials"} \X SiteArgs
     \X {[Quiet EXCEPT !.credFile = cf] : cf \in CredentialFiles})
  \cup ({"workflow_fetch"} \X FetchArgs
     \X {[Quiet EXCEPT !.readOk = r, !.dirOk = d] : r, d \in BOOLEAN})
  \cup ({"workflow_list"} \X {Args} \X {[Quiet EXCEPT !.dirOk = d] : d \in BOOLEAN})
  \cup ({"workflow_record_start"} \X StartArgs \X {Quiet})
  \cup ({"workflow_record_stop"} \X {Args, NoArguments_}
     \X {[Quiet EXCEPT !.writeOk = w] : w \in BOOLEAN})
  \cup (UnknownNames \X {Args, NoArguments_} \X {Quiet})

\* The request meets an error: in reading its arguments, in the credential
\* lookup, in the Workflow Store or in the Recorder.
Raises(name, args, env) ==
  CASE name \in {"login_to_site", "get_login_credentials"} ->
         \/ ~args.present
         \/ env.credFile # "ok"
         \/ args.site \in {"ebay"}
         \/ /\ name = "login_to_site"
            /\ args.site \in {"amazon", "constructor"}
    [] name = "workflow_fetch" ->
         \/ ~args.present
         \/ ~env.readOk
         \/ args.workflowName \notin DOMAIN files
         \/ files[args.workflowName].kind # "json"
         \/ ~files[args.workflowName].hasSteps
    [] name = "workflow_list" ->
         \/ ~env.dirOk
         \/ \E b \in DOMAIN files :
              files[b].kind = "json" /\ files[b].hasSteps /\ files[b].name = Undefined
    [] name = "workflow_record_start" -> ~args.present \/ recorder.recording
    [] name = "workflow_record_stop" ->
         recorder.recording /\ (recorder.steps = <<>> \/ ~env.writeOk)
    [] OTHER -> TRUE

\* C9 as claimed: no call ends in an exception leaving the handler; an error
\* comes back as a returned Result.
C9_ErrorsAreReturned ==
  last.op \in ToolNames \cup UnknownNames => last.kind = "return"

\* C9 (amended): the handler catches nothing. Every error a request meets
\* leaves the handler as a thrown Error carrying only a message, with no
\* content returned; the handler returns a Result exactly when no error was met.
C9_ErrorsAreThrown ==
  \A q \in Requests :
    LET out == CallToolHandler(recorder, files, q[1], q[2], q[3]).out
    IN IF Raises(q[1], q[2], q[3])
       THEN out.kind = "throw" /\ out.error \in ErrorKinds /\ out.text = ""
       ELSE out.kind = "return" /\ out.error = "none" /\ out.text # ""

\* A stop whose write failed has thrown PersistenceError out of the handler.
C9_Witness ==
  /\ last.op = "workflow_record_stop"
  /\ last.kind = "throw"
  /\ last.error = "PersistenceError"

\* C10: a call under an undeclared name throws UnknownOperationError and
\* leaves the recording session and the stored workflows as they were.
C10_UnknownOperation ==
  [][last'.op \in UnknownNames =>
       /\ last'.kind = "throw"
       /\ last'.error = "UnknownOperationError"
       /\ last'.subject = last'.op
       /\ recorder' = recorder
       /\ files' = files
       /\ hist' = hist]_vars

\* An undeclared name was called while a session with steps was recording.
C10_Witness ==
  /\ last.op \in UnknownNames
  /\ last.error = "UnknownOperationError"
  /\ recorder.recording
  /\ recorder.steps # <<>>

-----------------------------------------------------------------------------
(* Scheduling and ordering: claims C11-C15 *)

\* C11: calls are handled one at a time: while a workflow_record_stop is
\* suspended between its persistence write and its reading of the recorded
\* workflow, the only step taken is that call's own completion.
C11_OneCallAtATime ==
  [][inflight.active => ~inflight'.active]_vars

\* C12: generalize is independent of the ephemeral reference ids: on two
\* snapshots of one unchanged page that number its nodes differently, the
\* same node gets the same SelectorDescriptor (role, accessibleName, textHint,
\* ordinal), and generalize fails on neither.
C12_ReferenceIndependent ==
  gen.applied =>
    /\ ~gen.outA.threw
    /\ gen.outA = gen.outB
    /\ gen.outA.target.role = gen.page[gen.node].role
    /\ gen.outA.target.accessibleName = gen.page[gen.node].accessibleName

\* The node was the second of its role and name, took its textHint from an
\* ancestor, and carried different reference ids in the two snapshots.
C12_Witness ==
  /\ gen.applied
  /\ gen.refsA[gen.node] # gen.refsB[gen.node]
  /\ gen.refsA[gen.node] \in {gen.refsB[i] : i \in 1..Len(gen.refsB)}
  /\ gen.outA.target.ordinal = 1
  /\ gen.page[gen.node].text = ""
  /\ gen.outA.target.textHint = "Pay now"
  /\ gen.outB.target.ordinal = 1

\* C13: steps are appended in call order: a recording call that appends a
\* step leaves the earlier steps where they were and puts its own step last,
\* with a step number greater than all of theirs; a stop persists them in
\* that order.
C13_StepsInCallOrder ==
  [][/\ (last'.op = "workflowRecordAction" /\ recorder'.steps # recorder.steps) =>
          /\ Len(recorder'.steps) = Len(recorder.steps) + 1
          /\ SubSeq(recorder'.steps, 1, Len(recorder.steps)) = recorder.steps
          /\ \A i \in 1..Len(recorder.steps) :
               recorder.steps[i].step < recorder'.steps[Len(recorder'.steps)].step
     /\ (last'.op = "workflow_record_stop" /\ last'.text = "RecordingStopped") =>
          files'[recorder.name].steps = recorder.steps]_vars

\* Two recording calls of different kinds have appended their steps.
C13_Witness ==
  /\ last.op = "workflowRecordAction"
  /\ recorder.recording
  /\ Len(recorder.steps) = 2
  /\ recorder.steps[1].tool = "snapshot-checkpoint"
  /\ recorder.steps[2].tool = "click"

\* C14: while the recorder is idle every browser action handed to the
\* recorder is a no-op: it raises no error and leaves the recorder as it is,
\* idle and without steps, so that a session started afterwards begins empty.
C14_IdleRecordCallsAreNoOps ==
  ~recorder.recording =>
    /\ \A action \in RecordActions : \A params \in ParamsOf(action) :
         /\ workflowRecordAction(recorder, action, params).recorder = recorder
         /\ workflowRecordAction(recorder, action, params).out.kind = "return"
         /\ recordDispatch(recorder, action, params).recorder = recorder
         /\ recordDispatch(recorder, action, params).out.kind = "return"
    /\ recorder.steps = <<>>
    /\ \A n \in Names : workflowRecordStart(recorder, n, Undefined).recorder.steps = <<>>

\* A browser action was handed over while no session was recording.
C14_Witness ==
  /\ last.op = "workflowRecordAction"
  /\ last.kind = "return"
  /\ ~recorder.recording

\* C15: once a session has started, the browser actions the agent performs
\* are captured by the recorder: a session in which an action occurred holds
\* at least one step, so that it can be stopped with a non-empty Workflow.
C15_ActionsAreCaptured ==
  (recorder.recording /\ hist.acted) => recorder.steps # <<>>

-----------------------------------------------------------------------------
(* Stored documents and built workflows: claims C16-C17 *)

\* C16: a successful stop replaces the document stored under the session's
\* name by the new workflow alone (a fetch then returns exactly the session's
\* steps, nothing of the older document), and leaves the documents under
\* every other name as they were.
C16_SaveOverwritesWholesale ==
  [][(last'.op = "workflow_record_stop" /\ last'.text = "RecordingStopped") =>
       /\ files'[recorder.name] = Stringify(generateWorkflow(recorder))
       /\ workflowFetch(files', recorder.name, TRUE, TRUE).kind = "return"
       /\ workflowFetch(files', recorder.name, TRUE, TRUE).doc.steps = recorder.steps
       /\ \A b \in DOMAIN files : b # recorder.name => files'[b] = files[b]]_vars

\* A session of one step was saved under "rei", where a document of two steps
\* was stored, beside the stored document without a name.
C16_Witness ==
  /\ Stopped
  /\ last.path = "rei"
  /\ Len(files["rei"].steps) = 1
  /\ files["checkout"].kind = "json"
  /\ files["checkout"].name = Undefined

\* C17: the Workflow a stop builds and persists carries the name given at
\* start and the description given at start; its description is the default
\* made from the name only when the start supplied none.
C17_DescriptionFromStart ==
  [][(last'.op = "workflow_record_stop" /\ last'.text = "RecordingStopped") =>
       /\ files'[recorder.name].name = recorder.name
       /\ files'[recorder.name].description =
            IF hist.description = Undefined THEN DefaultDescription(recorder.name)
            ELSE <<hist.description>>]_vars

-----------------------------------------------------------------------------
(* Credentials and recovery: claims C18-C20 *)

\* The site a credential call was about, when credentials.json was readable.
LookedUp ==
  /\ last.op \in {"login_to_site", "get_login_credentials"}
  /\ last.kind = "return" \/ last.error \in {"CredentialNotFoundError",
                                             "CredentialFieldMissingError"}
LookedUpSite == IF last.kind = "return" THEN last.site ELSE last.subject

\* C18: login_to_site and get_login_credentials for a site that
\* credentials.json has no key for throw CredentialNotFoundError, with a
\* message that enumerates every key of the file, and return nothing.
C18_UnknownSiteListsKnownSites ==
  (LookedUp /\ LookedUpSite \notin DOMAIN Credentials) =>
    /\ last.kind = "throw"
    /\ last.error = "CredentialNotFoundError"
    /\ last.listed = DOMAIN Credentials

\* C19: no error ends the server: in every state left by a call that threw,
\* each tool can be called again, and a call that meets no error (here
\* get_login_credentials for a configured site) returns its result.
C19_ErrorsAreRecoverable ==
  last.kind = "throw" =>
    /\ ENABLED LoginToSite
    /\ ENABLED GetLoginCredentials
    /\ ENABLED WorkflowFetch
    /\ ENABLED WorkflowList
    /\ ENABLED WorkflowRecordStart
    /\ ENABLED WorkflowRecordStop
    /\ ENABLED UnknownTool
    /\ ENABLED (GetLoginCredentials /\ last'.kind = "return" /\ last'.site = "rei")

\* A call has thrown while a session with steps was recording.
C19_Witness ==
  /\ last.kind = "throw"
  /\ last.error = "CredentialNotFoundError"
  /\ recorder.recording
  /\ recorder.steps # <<>>

\* C20: a successful stop leaves the recorder idle with the session state
\* discarded: a start under any name then succeeds and begins a session with
\* that name, no steps and no Snapshot Index.
C20_StopDiscardsSession ==
  Stopped =>
    /\ recorder = IdleRecorder
    /\ \A n \in Names :
         LET r == CallToolHandler(recorder, files, "workflow_record_start",
                                  [Args EXCEPT !.name = n], Quiet)
         IN /\ r.out.kind = "return"
            /\ r.recorder.recording
            /\ r.recorder.name = n
            /\ r.recorder.steps = <<>>
            /\ r.recorder.index = <<>>
            /\ ~r.recorder.snapshotTaken

\* A session was started after an earlier one had been stopped and saved.
C20_Witness ==
  /\ last.op = "workflow_record_start"
  /\ last.kind = "return"
  /\ recorder.recording
  /\ recorder.steps = <<>>
  /\ \E b \in Names : hist.saved[b] # NoWorkflow /\ b # recorder.name

-----------------------------------------------------------------------------
(* Snapshots and selectors: claims C21-C24 *)

\* The recorder after a snapshot action with snapshot sn is handed over.
AfterSnapshot(sn) ==
  workflowRecordAction(recorder, "snapshot", [NoParams EXCEPT !.snapshot = sn]).recorder

\* C21: in an active session the first snapshot appends exactly one Step, a
\* snapshot-checkpoint numbered next, and every later snapshot appends none;
\* each of them replaces the session's Snapshot Index by the new snapshot.
C21_SnapshotCheckpointOnce ==
  recorder.recording =>
    \A sn \in Snapshots :
      /\ AfterSnapshot(sn).index = sn
      /\ AfterSnapshot(sn).recording
      /\ AfterSnapshot(sn).name = recorder.name
      /\ hist.snaps = 0 =>
           /\ Len(AfterSnapshot(sn).steps) = Len(recorder.steps) + 1
           /\ SubSeq(AfterSnapshot(sn).steps, 1, Len(recorder.steps)) = recorder.steps
           /\ AfterSnapshot(sn).steps[Len(recorder.steps) + 1].tool = "snapshot-checkpoint"
           /\ AfterSnapshot(sn).steps[Len(recorder.steps) + 1].step = Len(recorder.steps) + 1
           /\ \A i \in 1..Len(recorder.steps) :
                recorder.steps[i].tool # "snapshot-checkpoint"
      /\ hist.snaps > 0 => AfterSnapshot(sn).steps = recorder.steps

\* Two snapshots were taken in a session: it holds the one checkpoint step,
\* and its index is the later snapshot.
C21_Witness ==
  /\ recorder.recording
  /\ last.op = "workflowRecordAction"
  /\ hist.snaps = 2
  /\ Len(recorder.steps) = 1
  /\ recorder.steps[1].tool = "snapshot-checkpoint"
  /\ recorder.index = SnapCartAgain

\* Every reference id the browser-control tool hands out in these snapshots.
AllRefs == {"e1", "e2", "e3", "e4"}
RefsOf(index) == {index[p].ref : p \in 1..Len(index)}
TargetedActions == {"click", "type", "select_option"}

\* What becomes of a click, type or select_option on ref handed to recorder rec.
Targeted(rec, action, ref) ==
  workflowRecordAction(rec, action, [NoParams EXCEPT !.element = "Size box", !.ref = ref])

\* C22: a ref is resolved against the session's current Snapshot Index, which
\* is the most recent snapshot: a click, type or select_option fails with
\* UnresolvedReferenceError exactly when its ref is absent from it, also when
\* an earlier snapshot of the session held that ref.
C22_ResolvedAgainstLatestSnapshot ==
  recorder.recording =>
    \A action \in TargetedActions : \A ref \in AllRefs :
      /\ IF ref \in RefsOf(recorder.index)
         THEN Targeted(recorder, action, ref).out.kind = "return"
         ELSE /\ Targeted(recorder, action, ref).out.kind = "throw"
              /\ Targeted(recorder, action, ref).out.error = "UnresolvedReferenceError"
      /\ \A sn \in Snapshots :
           IF ref \in RefsOf(sn)
           THEN Targeted(AfterSnapshot(sn), action, ref).out.kind = "return"
           ELSE /\ Targeted(AfterSnapshot(sn), action, ref).out.kind = "throw"
                /\ Targeted(AfterSnapshot(sn), action, ref).out.error
                     = "UnresolvedReferenceError"

\* After a second snapshot, an action named a ref that the latest snapshot
\* does not hold.
C22_Witness ==
  /\ last.op = "workflowRecordAction"
  /\ last.error = "UnresolvedReferenceError"
  /\ recorder.recording
  /\ hist.snaps = 2
  /\ recorder.index = SnapCartAgain

\* Node q of the page has the role and the accessibleName of node p.
Alike(page, p, q) ==
  /\ page[q].role = page[p].role
  /\ page[q].accessibleName = page[p].accessibleName

\* How many of the first q nodes of the page are alike node p.
RECURSIVE AlikeAmongFirst(_, _, _)
AlikeAmongFirst(page, p, q) ==
  IF q = 0 THEN 0
  ELSE AlikeAmongFirst(page, p, q - 1) + (IF Alike(page, p, q) THEN 1 ELSE 0)

Labels == {"Checkout button", "Cart form", "e3"}

\* The Step a click, type or select_option on ref, labelled label, appends.
StepFor(action, ref, label) ==
  LET r == workflowRecordAction(recorder, action,
                                [NoParams EXCEPT !.element = label, !.ref = ref]).recorder
  IN r.steps[Len(r.steps)]

\* The node of the current Snapshot Index that carries ref.
NodeOf(ref) ==
  recorder.index[CHOOSE p \in 1..Len(recorder.index) : recorder.index[p].ref = ref]

\* C24: the target of a click, type or select_option Step is the
\* SelectorDescriptor of the node its ref denotes in the current Snapshot
\* Index, role and accessibleName copied from that node, whatever label the
\* caller gives for the element; on the cart page the first Checkout button
\* yields role button, accessibleName Checkout, ordinal 0.
C24_TargetFromSnapshotNode ==
  recorder.recording =>
    \A action \in TargetedActions : \A ref \in RefsOf(recorder.index) :
      \A label \in Labels :
        /\ StepFor(action, ref, label).tool = action
        /\ StepFor(action, ref, label).target.role = NodeOf(ref).role
        /\ StepFor(action, ref, label).target.accessibleName = NodeOf(ref).accessibleName
        /\ StepFor(action, ref, label).target = generalize(ref, recorder.index).target
        /\ (recorder.index = SnapCart /\ ref = "e2") =>
             /\ StepFor(action, ref, label).target.role = "button"
             /\ StepFor(action, ref, label).target.accessibleName = "Checkout"
             /\ StepFor(action, ref, label).target.ordinal = 0

\* The checkout scenario: a click on the first Checkout button of the cart
\* page was recorded.
C24_Witness ==
  /\ recorder.recording
  /\ recorder.index = SnapCart
  /\ Len(recorder.steps) = 2
  /\ recorder.steps[2].tool = "click"
  /\ recorder.steps[2].target.role = "button"
  /\ recorder.steps[2].target.accessibleName = "Checkout"
  /\ recorder.steps[2].target.ordinal = 0

-----------------------------------------------------------------------------
(* Catalog, append-only steps, persistence: claims C25-C30 *)

\* The handler has a branch for the name: calling it does not end in
\* UnknownOperationError, with or without arguments.
Handled(name) ==
  \A args \in {Args, NoArguments_} :
    CallToolHandler(recorder, files, name, args, Quiet).out.error # "UnknownOperationError"

\* C25: the names tools/list enumerates are exactly the names tools/call
\* routes to an operation: every listed name is handled, and every handled
\* name is listed.
C25_CatalogMatchesRouting ==
  /\ \A name \in listTools.listed \cup HandledNames \cup UnknownNames :
       name \in listTools.listed <=> Handled(name)
  /\ last.op = "tools/list" => \A name \in last.listed : Handled(name)

\* tools/list has answered with its six names while a session was recording.
C25_Witness ==
  /\ last.op = "tools/list"
  /\ last.kind = "return"
  /\ Cardinality(last.listed) = 6
  /\ recorder.recording

\* later begins with earlier: the same Steps at the same positions.
Extends(later, earlier) ==
  /\ Len(later) >= Len(earlier)
  /\ SubSeq(later, 1, Len(earlier)) = earlier

\* C26: within a session the step sequence is append-only: whatever record
\* call, snapshot or start comes next, the Steps already appended keep their
\* index and content, and a stop puts the same Steps in the same order into
\* the Workflow it persists.
C26_StepsAppendOnly ==
  recorder.recording =>
    /\ \A i \in 1..Len(recorder.steps) : recorder.steps[i].step = i
    /\ \A action \in RecordActions : \A params \in ParamsOf(action) :
         Extends(workflowRecordAction(recorder, action, params).recorder.steps,
                 recorder.steps)
    /\ \A args \in StartArgs :
         LET r == CallToolHandler(recorder, files, "workflow_record_start", args, Quiet)
         IN /\ r.recorder.recording
            /\ Extends(r.recorder.steps, recorder.steps)
    /\ LET r == CallToolHandler(recorder, files, "workflow_record_stop", Args, Quiet)
       IN r.out.text = "RecordingStopped" => r.files[r.out.path].steps = recorder.steps

\* Two Steps are in the session and a start has just been refused.
C26_Witness ==
  /\ recorder.recording
  /\ Len(recorder.steps) = 2
  /\ recorder.steps[1].tool = "snapshot-checkpoint"
  /\ last.op = "workflow_record_start"
  /\ last.error = "AlreadyRecordingError"

\* C27: when the persistence write of workflow_record_stop fails, the
\* recorded steps are not lost: one more workflow_record_stop, its write
\* succeeding, persists the same steps under the session's name.
C27_RetryAfterFailedWrite ==
  [][(last'.op = "workflow_record_stop" /\ last'.error = "PersistenceError") =>
       LET retry == CallToolHandler(recorder', files', "workflow_record_stop", Args, Quiet)
       IN /\ retry.out.text = "RecordingStopped"
          /\ retry.out.path = recorder.name
          /\ retry.files[recorder.name].steps = recorder.steps]_vars

\* C28: the stored documents change only through a workflow_record_stop that
\* succeeds. Whatever the next call is, it leaves every document as it is
\* unless it is a stop returning RecordingStopped; and every document in the
\* store is one the server was started on or the one a successful stop saved
\* under that name.
C28_OnlyStopWrites ==
  /\ \A q \in Requests :
       LET r == CallToolHandler(recorder, files, q[1], q[2], q[3])
       IN r.files # files =>
            /\ q[1] = "workflow_record_stop"
            /\ r.out.kind = "return"
            /\ r.out.text = "RecordingStopped"
  /\ \A b \in Names :
       \/ \E store \in InitStores : files[b] = store[b]
       \/ /\ hist.saved[b] # NoWorkflow
          /\ files[b] = Stringify(hist.saved[b])

\* A first session was saved under "checkout"; the stop of a second session
\* has failed at its write and the saved document is still the first one.
C28_Witness ==
  /\ last.op = "workflow_record_stop"
  /\ last.error = "PersistenceError"
  /\ hist.saved["checkout"] # NoWorkflow
  /\ files["checkout"] = Stringify(hist.saved["checkout"])
  /\ \A store \in InitStores : files["checkout"] # store["checkout"]

\* C29: the workflow a successful workflow_record_stop reports to its caller
\* (name, number of steps, steps) is the one it persisted, although the
\* handler asks the recorder for it only after the save has completed.
C29_ReportedIsPersisted ==
  Stopped =>
    /\ last.workflow.name = files[last.path].name
    /\ Len(last.workflow.steps) = Len(files[last.path].steps)
    /\ last.workflow.steps = files[last.path].steps

\* C30: a click, type or select_option that fails with
\* UnresolvedReferenceError leaves the active session as it was: no Step is
\* appended, no step number is consumed (the next recorded Step gets the
\* number following the last one), and the session stays active with its
\* name and its earlier Steps.
C30_UnresolvedLeavesSession ==
  /\ recorder.recording =>
       \A action \in TargetedActions : \A ref \in AllRefs \ RefsOf(recorder.index) :
         LET failed == Targeted(recorder, action, ref)
         IN /\ failed.out.error = "UnresolvedReferenceError"
            /\ failed.recorder = recorder
            /\ \A u \in Urls :
                 LET next == workflowRecordAction(failed.recorder, "navigate",
                                                  [NoParams EXCEPT !.url = u])
                 IN /\ Len(next.recorder.steps) = Len(recorder.steps) + 1
                    /\ next.recorder.steps[Len(recorder.steps) + 1].step
                         = Len(recorder.steps) + 1
  /\ last.error = "UnresolvedReferenceError" =>
       /\ recorder.recording
       /\ recorder.name \in Names
       /\ Len(recorder.steps) = hist.resolved

\* A session named checkout holds its snapshot checkpoint and nothing else
\* after an action on a ref the snapshot does not hold.
C30_Witness ==
  /\ last.op = "workflowRecordAction"
  /\ last.error = "UnresolvedReferenceError"
  /\ recorder.recording
  /\ recorder.name = "checkout"
  /\ Len(recorder.steps) = 1
  /\ recorder.steps[1].tool = "snapshot-checkpoint"

====
